---- MODULE Spec2Model ----
(***************************************************************************)
(* Model of the mod-approval vote of zomboid_server_helper (src/bot.py):   *)
(* add_mod opens a poll and a one-shot "poll_stopper" job, the poll-answer *)
(* handler receive_poll_answer counts votes, shortens the poll at the      *)
(* quorum and closes it at five answers, and the job callback              *)
(* stop_poll_by_time closes it at the deadline.  Each handler is one       *)
(* action (handlers run one after the other on the bot's event loop).      *)
(* The clock is discrete: it advances by TickLen seconds or to the time of *)
(* the next job, and never past a job that is due.                         *)
(***************************************************************************)
EXTENDS Integers, Sequences, FiniteSets, TLC

\* ---------------------------------------------------------------- bounds
\* polls opened in one behaviour
MaxPolls == 2
\* seconds per step of the clock
TickLen == 1200
\* steps of the clock in one behaviour
MaxTicks == 4
\* poll answers counted in one behaviour, over all polls
MaxAnswers == 6
\* distinct users voting in one poll
MaxVoters == 5
\* vote retractions in one behaviour
MaxRetractions == 1

MaxTime == MaxTicks * TickLen

\* catalog ids proposed with /add_mod
ModIds == {"123"}

\* values of config.yaml's other.minimum_agree_members_for_mod
QuorumChoices == {3, 5, 6}

\* what mod_manager.get_required_mod does for the caller: it returns a
\* mapping, or it returns None (the root timed out in every round; the
\* caller then fails on mod_metadata.keys(), as it does when the call raises)
ResolveOutcomes == {"mapping", "none"}

\* ------------------------------------------------------ program constants
ZOMBOID_WORKSHOP_URL_PREFIX == "https://steamcommunity.com/sharedfiles/filedetails/?id="
\* timedelta(seconds=3600) of add_mod
PollWindow == 3600
\* timedelta(seconds=1800) of receive_poll_answer
ExtendedWindow == 1800
\* the literal 5 of receive_poll_answer
HardCap == 5
questions == <<"Setuju", "Tidak Setuju">>

\* ------------------------------------------------------------------ state
VARIABLES
    now,                            \* datetime.now()
    MINIMUM_AGREE_MEMBERS_FOR_MOD,  \* config.py, fixed at start-up
    bot_data,       \* context.bot_data: poll id -> payload
    polls,          \* the module-level dict polls: poll id -> label -> count
    job_queue,      \* pending jobs named "poll_stopper"
    tg_voted,       \* Telegram's side: number of users whose vote stands, per poll
    tg_retracted,   \* Telegram's side: retractions so far
    voters,         \* history: number of distinct users who voted, per poll
    effects,        \* history: calls made for a poll (bot API, mod manager)
    closures,       \* history: the close decisions taken for a poll
    deadline_hist,  \* history: every value poll_end_time was set to
    catalog,        \* the Steam Workshop: catalog id -> the item's page
    mod_manager,    \* the fields of the ZomboidModManager object
    resolution,     \* history: the last call of get_required_mod
    mod_graph,      \* the fields of the ZomboidModGraph object
    disk,           \* the two files a graph is saved to and loaded from
    graph_ops,      \* history: the graph operations performed
    zomboid_config, \* ZomboidConfig: the parser's values and the .ini file
    manager_call,   \* history: the last call made on the mod manager
    add_calls,      \* history: number of add_to_config calls
    clock,          \* time.time()
    rate_limit_data,    \* the dict rate_limit_data of one decorated handler
    handler_log,    \* history: the calls of the decorated handler
    tmux,           \* the tmux server: the session and the keys sent to it
    rcon            \* the ZomboidCommand object and, as history, its calls

\* the state of the vote, of the dependency resolver and of the mod graph
vote_vars == <<now, MINIMUM_AGREE_MEMBERS_FOR_MOD, bot_data, polls, job_queue,
               tg_voted, tg_retracted, voters, effects, closures,
               deadline_hist>>
resolver_vars == <<catalog, mod_manager, resolution>>
graph_vars == <<mod_graph, disk, graph_ops>>
\* the state of the server configuration and of the bot's commands
manager_vars == <<zomboid_config, manager_call, add_calls>>
command_vars == <<clock, rate_limit_data, handler_log, tmux, rcon>>

vars == <<now, MINIMUM_AGREE_MEMBERS_FOR_MOD, bot_data, polls, job_queue,
          tg_voted, tg_retracted, voters, effects, closures, deadline_hist,
          catalog, mod_manager, resolution, mod_graph, disk, graph_ops,
          zomboid_config, manager_call, add_calls,
          clock, rate_limit_data, handler_log, tmux, rcon>>

PollIds == DOMAIN bot_data

RECURSIVE SumAnswers(_)
SumAnswers(n) == IF n = 0 THEN 0 ELSE bot_data[n].answers + SumAnswers(n - 1)
TotalAnswers == SumAnswers(Len(bot_data))

\* ------------------------------------------------------- the Workshop
\* the catalog ids of the Workshop items of the model
CatalogIds == {"1", "2", "3", "4"}

\* a Workshop page: the text of its div.workshopItemTitle (if it has one),
\* the texts that follow the "Mod ID:" labels of its div#highlightContent (if
\* it has one) and the catalog ids its div#RequiredItems links to, in order
Page(title, labels, required_items) ==
    [ has_title |-> TRUE, title |-> title,
      has_highlight |-> TRUE, labels |-> labels,
      required_items |-> required_items ]

\* item 1 requires 2 and 3, which both require 4
Diamond ==
    [ id \in CatalogIds |->
        CASE id = "1" -> Page("Root", <<"root">>, <<"2", "3">>)
          [] id = "2" -> Page("Left", <<"left">>, <<"4">>)
          [] id = "3" -> Page("Right", <<"right">>, <<"4">>)
          [] OTHER    -> Page("Base", <<"base", "base_extra">>, <<>>) ]

\* the same catalog with a page of item 2 that lacks a part
DiamondNoTitle == [Diamond EXCEPT !["2"].has_title = FALSE, !["2"].title = ""]
DiamondNoHighlight == [Diamond EXCEPT !["2"].has_highlight = FALSE,
                                      !["2"].labels = <<>>]
DiamondNoLabel == [Diamond EXCEPT !["2"].labels = <<>>]

\* items 1 and 2 require each other
Cycle ==
    [ id \in CatalogIds |->
        CASE id = "1" -> Page("Root", <<"root">>, <<"2">>)
          [] id = "2" -> Page("Left", <<"left">>, <<"1">>)
          [] id = "3" -> Page("Right", <<"right">>, <<>>)
          [] OTHER    -> Page("Base", <<"base", "base_extra">>, <<>>) ]

Catalogs ==
    {Diamond, DiamondNoTitle, DiamondNoHighlight, DiamondNoLabel, Cycle}

\* a Python dict: its keys in insertion order and the value of each key
EmptyMap == [keys |-> <<>>, val |-> [key \in {} |-> 0]]

\* Python's None and a dict, as values of one shape
None == [none |-> TRUE, map |-> EmptyMap]
Some(map) == [none |-> FALSE, map |-> map]

\* ZomboidModManager.__init__: no URL is pending
NewManager == [timed_out_url |-> <<>>]

\* no call of get_required_mod has been made
NoResolution ==
    [ calls |-> 0, root |-> "", net |-> [id \in CatalogIds |-> 0],
      ret |-> None, raised |-> "",
      pending_at_start |-> <<>>, fetched |-> <<>>, rounds |-> <<>>,
      retried |-> <<>> ]

\* ZomboidModGraph.__init__ without mod_data: ig.Graph(directed=True) and {}.
\* A graph is its list of vertices (igraph numbers them from 0; here from 1)
\* and its list of edges, each a pair of vertex indices.
NewGraph == [graph |-> [vs |-> <<>>, es |-> <<>>], mod_data |-> EmptyMap]

\* neither file exists
EmptyDisk ==
    [ graphml |-> [exists |-> FALSE, content |-> NewGraph.graph],
      meta |-> [exists |-> FALSE, content |-> EmptyMap] ]

\* a value of the .ini file is kept as the list value.split(";") gives: the
\* empty value is the list holding one empty text
EmptyValue == <<"">>

\* the keys of the .ini file of the model: the two that add_to_config reads
\* and writes, and two of which one ends with the other
ConfigKeys == {"WorkshopItems", "Mods", "Password", "RCONPassword"}

\* the values of the keys
Lines(workshop_items, mods) ==
    [ key \in ConfigKeys |->
        CASE key = "WorkshopItems" -> workshop_items
          [] key = "Mods" -> mods
          [] key = "Password" -> <<"pw">>
          [] OTHER -> <<"secret">> ]

\* read_mod_config: the parser holds what the file holds
ConfigOf(workshop_items, mods) ==
    [ parser |-> Lines(workshop_items, mods),
      file |-> Lines(workshop_items, mods) ]

\* no call has been made on the mod manager
\* arg: the identifier or the batch given; node: the catalog id the
\* identifier was resolved to; ret: the list returned; done: True was returned
NoCall ==
    [ op |-> "", arg |-> "", force |-> FALSE, node |-> "", ret |-> <<>>,
      done |-> FALSE, raised |-> "" ]

\* no tmux session and nothing typed; as history, the number of
\* restart_session calls and how the last one ended
NoSession == [session |-> FALSE, keys |-> <<>>, calls |-> 0, last |-> ""]

\* ZomboidCommand.__init__: no client yet; no call was made
NewCommand ==
    [ client |-> FALSE, calls |-> 0, op |-> "", args |-> <<>>,
      command |-> <<>>, raised |-> "" ]

\* the configuration and the commands while another part is modelled
CommandInit ==
    /\ clock = 0
    /\ rate_limit_data = [user \in {} |-> 0]
    /\ handler_log = <<>>
    /\ tmux = NoSession
    /\ rcon = NewCommand
ManagerInit ==
    /\ zomboid_config = ConfigOf(EmptyValue, EmptyValue)
    /\ manager_call = NoCall
    /\ add_calls = 0

\* the resolver and the graph as they are while the vote is modelled
IdleInit ==
    /\ catalog = Diamond
    /\ mod_manager = NewManager
    /\ resolution = NoResolution
    /\ mod_graph = NewGraph
    /\ disk = EmptyDisk
    /\ graph_ops = <<>>
    /\ ManagerInit
    /\ CommandInit

\* the vote before any poll was opened
VoteInit ==
    /\ now = 0
    /\ bot_data = <<>>
    /\ polls = <<>>
    /\ job_queue = {}
    /\ tg_voted = <<>>
    /\ tg_retracted = 0
    /\ voters = <<>>
    /\ effects = <<>>
    /\ closures = <<>>
    /\ deadline_hist = <<>>

Init ==
    /\ VoteInit
    /\ MINIMUM_AGREE_MEMBERS_FOR_MOD \in QuorumChoices
    /\ IdleInit

\* ---------------------------------------------------------------- helpers
Call(op, arg) == [op |-> op, arg |-> arg]

\* job_queue.run_once(stop_poll_by_time, delay, data=poll_id, name="poll_stopper")
run_once(delay, data) == [data |-> data, at |-> now + delay]

\* the loop building answer_string from the selected option ids
RECURSIVE answer_string_from(_, _)
answer_string_from(selected_options, i) ==
    IF i > Len(selected_options) THEN ""
    ELSE (IF selected_options[i] # selected_options[Len(selected_options)]
          THEN questions[selected_options[i] + 1] \o " dan "
          ELSE questions[selected_options[i] + 1])
         \o answer_string_from(selected_options, i + 1)

AnswerString(selected_options) == answer_string_from(selected_options, 1)

\* add_to_config as it would be with the graph merged before the config writes
AddToConfigStepsGraphFirst ==
    << Call("update_by_metadata", ""),
       Call("save", ""),
       Call("change_main_config", "WorkshopItems"),
       Call("change_main_config", "Mods") >>

\* ZomboidModManager.add_to_config: the two config writes, then the graph
AddToConfigSteps ==
    << Call("change_main_config", "WorkshopItems"),
       Call("change_main_config", "Mods"),
       Call("update_by_metadata", ""),
       Call("save", "") >>

\* the approved branch of stop_poll_by_time / receive_poll_answer
ApprovedSteps(mod_url, resolved) ==
    << Call("send_message", "approved"),
       Call("send_message", "will install"),
       Call("get_required_mod", mod_url) >>
    \o (IF resolved = "mapping"
        THEN <<Call("send_message", "mod list")>> \o AddToConfigSteps
             \o <<Call("send_message", "added")>>
        ELSE <<>>)

StopPollSteps == <<Call("stop_poll", ""), Call("delete_message", "")>>

\* ------------------------------------------------------------------ add_mod
\* the branch of add_mod that opens a poll: the URL was valid and the mod is
\* not installed.  The poll id is the index of the new entry.
NewPayload(mod_id) ==
    [ answers |-> 0,
      mod_url |-> ZOMBOID_WORKSHOP_URL_PREFIX \o mod_id,
      poll_end_time |-> now + PollWindow ]

NewTally == [option \in {questions[i] : i \in DOMAIN questions} |-> 0]

AddMod(mod_id) ==
    /\ Len(bot_data) < MaxPolls
    /\ bot_data' = Append(bot_data, NewPayload(mod_id))
    /\ polls' = Append(polls, NewTally)
    /\ job_queue' = job_queue \cup {run_once(PollWindow, Len(bot_data) + 1)}
    /\ tg_voted' = Append(tg_voted, 0)
    /\ UNCHANGED tg_retracted
    /\ voters' = Append(voters, 0)
    /\ effects' = Append(effects, <<>>)
    /\ closures' = Append(closures, <<>>)
    /\ deadline_hist' = Append(deadline_hist, <<now + PollWindow>>)
    /\ UNCHANGED <<now, MINIMUM_AGREE_MEMBERS_FOR_MOD>>
    /\ UNCHANGED <<resolver_vars, graph_vars, manager_vars, command_vars>>

\* ------------------------------------------------------- closing a poll
\* the deadline decision as it would be with >= for >
TimeOutcomeTieApproves(tally) ==
    IF tally["Setuju"] >= tally["Tidak Setuju"] THEN "Approved" ELSE "Rejected"

\* n_agree > n_disagree of stop_poll_by_time
TimeOutcome(tally) ==
    IF tally["Setuju"] > tally["Tidak Setuju"] THEN "Approved" ELSE "Rejected"

\* n_agree > n_disagree of receive_poll_answer
CapOutcome(tally) ==
    IF tally["Setuju"] > tally["Tidak Setuju"] THEN "Approved" ELSE "Rejected"

\* what stop_poll_by_time does after stopping the poll: it has no else branch
TimeCloseSteps(outcome, mod_url, resolved) ==
    IF outcome = "Approved" THEN ApprovedSteps(mod_url, resolved) ELSE <<>>

\* what receive_poll_answer does after stopping the poll at five answers
CapCloseSteps(outcome, mod_url, resolved) ==
    IF outcome = "Approved" THEN ApprovedSteps(mod_url, resolved)
    ELSE <<Call("send_message", "rejected")>>

\* -------------------------------------------------- receive_poll_answer
\* the jobs left after `for job in get_jobs_by_name("poll_stopper"):
\* job.schedule_removal()`: every job of the application has that name
JobsAfterRemoval == {}

\* the new deadline as it would be with the full window of add_mod
QuorumDeadlineFullWindow == now + PollWindow

\* the new deadline of the quorum branch
QuorumDeadline == now + ExtendedWindow

\* the branch test as it would be with >= for ==
BranchAtLeast(answers) ==
    IF answers >= MINIMUM_AGREE_MEMBERS_FOR_MOD THEN "quorum"
    ELSE IF answers = HardCap THEN "cap"
    ELSE "none"

\* which branch the handler takes once answers has been incremented
Branch(answers) ==
    IF answers = MINIMUM_AGREE_MEMBERS_FOR_MOD THEN "quorum"
    ELSE IF answers = HardCap THEN "cap"
    ELSE "none"

\* a tally in which a vote counts twice
AddVoteTwice(tally, answer_string) ==
    [tally EXCEPT ![answer_string] = @ + 2]

\* polls[answer.poll_id][answer_string] += 1
AddVote(tally, answer_string) ==
    [tally EXCEPT ![answer_string] = @ + 1]

\* Telegram delivers a poll answer for poll p: the chosen option ids, or the
\* empty list when the user retracts the vote.  The handler reads the user
\* only for the text of a message, so the model keeps how many users have
\* voted in the poll and for how many the vote stands; `again` says that
\* the user has already voted in this poll (and retracted since).
ReceivePollAnswer(p, again, selected_options, resolved) ==
    /\ p \in PollIds
    /\ IF selected_options = <<>>
       THEN /\ tg_voted[p] > 0
            /\ tg_retracted < MaxRetractions
            /\ tg_voted' = [tg_voted EXCEPT ![p] = @ - 1]
            /\ tg_retracted' = tg_retracted + 1
            /\ UNCHANGED voters
       ELSE /\ TotalAnswers < MaxAnswers
            /\ IF again THEN tg_voted[p] < voters[p] ELSE voters[p] < MaxVoters
            /\ tg_voted' = [tg_voted EXCEPT ![p] = @ + 1]
            /\ voters' = [voters EXCEPT ![p] = IF again THEN @ ELSE @ + 1]
            /\ UNCHANGED tg_retracted
    /\ LET answer_string == AnswerString(selected_options) IN
       IF answer_string \notin DOMAIN polls[p]
       THEN \* polls[poll_id][answer_string] raises KeyError
            UNCHANGED <<bot_data, polls, job_queue, effects,
                        closures, deadline_hist>>
       ELSE
         LET tally == AddVote(polls[p], answer_string)
             answers == bot_data[p].answers + 1
             branch == Branch(answers)
             outcome == CapOutcome(tally)
         IN
         /\ polls' = [polls EXCEPT ![p] = tally]
         /\ bot_data' = [bot_data EXCEPT
                ![p].answers = answers,
                ![p].poll_end_time =
                    IF branch = "quorum" THEN QuorumDeadline ELSE @]
         /\ deadline_hist' = [deadline_hist EXCEPT ![p] =
                IF branch = "quorum" THEN Append(@, QuorumDeadline) ELSE @]
         /\ job_queue' =
                CASE branch = "quorum" ->
                        JobsAfterRemoval \cup {run_once(ExtendedWindow, p)}
                  [] branch = "cap" -> JobsAfterRemoval
                  [] OTHER -> job_queue
         /\ effects' = [effects EXCEPT ![p] =
                CASE branch = "quorum" ->
                        Append(@, Call("send_message", "quorum"))
                  [] branch = "cap" ->
                        @ \o StopPollSteps
                          \o CapCloseSteps(outcome, bot_data[p].mod_url, resolved)
                  [] OTHER -> @]
         /\ closures' = [closures EXCEPT ![p] =
                IF branch = "cap"
                THEN Append(@, [by |-> "cap", outcome |-> outcome])
                ELSE @]
    /\ UNCHANGED <<now, MINIMUM_AGREE_MEMBERS_FOR_MOD>>
    /\ UNCHANGED <<resolver_vars, graph_vars, manager_vars, command_vars>>

\* ---------------------------------------------------- stop_poll_by_time
\* the job queue runs a due job once and forgets it
StopPollByTime(job, resolved) ==
    /\ job \in job_queue
    /\ job.at <= now
    /\ job_queue' = job_queue \ {job}
    /\ LET p == job.data
           answer_id == bot_data[p]
           outcome == TimeOutcome(polls[p])
       IN
       IF now >= answer_id.poll_end_time
       THEN /\ effects' = [effects EXCEPT ![p] =
                   @ \o StopPollSteps
                     \o TimeCloseSteps(outcome, answer_id.mod_url, resolved)]
            /\ closures' = [closures EXCEPT ![p] =
                   Append(@, [by |-> "time", outcome |-> outcome])]
       ELSE UNCHANGED <<effects, closures>>
    /\ UNCHANGED <<now, MINIMUM_AGREE_MEMBERS_FOR_MOD, bot_data, polls,
                   tg_voted, tg_retracted, voters, deadline_hist>>
    /\ UNCHANGED <<resolver_vars, graph_vars, manager_vars, command_vars>>

\* ------------------------------------------------------------- the clock
\* time passes: TickLen seconds, or less when a job falls due before that;
\* a job that is due runs before the clock moves on
NextTime ==
    LET times == {now + TickLen} \cup {job.at : job \in job_queue}
    IN CHOOSE t \in times : \A other \in times : t <= other

Tick ==
    /\ PollIds # {}
    /\ \A job \in job_queue : job.at > now
    /\ NextTime <= MaxTime
    /\ now' = NextTime
    /\ UNCHANGED <<MINIMUM_AGREE_MEMBERS_FOR_MOD, bot_data, polls, job_queue,
                   tg_voted, tg_retracted, voters, effects, closures,
                   deadline_hist>>
    /\ UNCHANGED <<resolver_vars, graph_vars, manager_vars, command_vars>>

OptionChoices == {<<>>, <<0>>, <<1>>}

Next ==
    \/ \E mod_id \in ModIds : AddMod(mod_id)
    \/ \E p \in PollIds, again \in BOOLEAN, selected_options \in OptionChoices,
          resolved \in ResolveOutcomes :
            ReceivePollAnswer(p, again, selected_options, resolved)
    \/ \E job \in job_queue, resolved \in ResolveOutcomes :
            StopPollByTime(job, resolved)
    \/ Tick

Spec == Init /\ [][Next]_vars

\* the behaviours in which a single poll is opened
NextOnePoll ==
    \/ \E mod_id \in ModIds : PollIds = {} /\ AddMod(mod_id)
    \/ \E p \in PollIds, again \in BOOLEAN, selected_options \in OptionChoices,
          resolved \in ResolveOutcomes :
            ReceivePollAnswer(p, again, selected_options, resolved)
    \/ \E job \in job_queue, resolved \in ResolveOutcomes :
            StopPollByTime(job, resolved)
    \/ Tick

SpecOnePoll == Init /\ [][NextOnePoll]_vars

\* ------------------------------------------------------------ properties
Agree(p) == polls[p]["Setuju"]
Disagree(p) == polls[p]["Tidak Setuju"]
Closed(p) == closures[p] # <<>>
Has(p, call) == \E i \in DOMAIN effects[p] : effects[p][i] = call
OutcomeMessages(p) ==
    {i \in DOMAIN effects[p] :
        effects[p][i] \in {Call("send_message", "approved"),
                           Call("send_message", "rejected")}}
\* the calls a step added to the log of poll p
Added(before, after) == SubSeq(after, Len(before) + 1, Len(after))
InSeq(seq, x) == \E i \in DOMAIN seq : seq[i] = x

\* C1: every step that closes a poll, by the deadline job or at five answers,
\* takes the approved branch if and only if the Agree count is strictly
\* greater than the Disagree count at that moment; otherwise (a tie
\* included) the poll is rejected and nothing is installed.
C1_OutcomeRule ==
    [][\A p \in PollIds :
        Len(closures'[p]) > Len(closures[p]) =>
          LET closure == closures'[p][Len(closures'[p])]
              added == Added(effects[p], effects'[p])
              agree == polls'[p]["Setuju"]
              disagree == polls'[p]["Tidak Setuju"]
          IN /\ closure.outcome = "Approved" <=> agree > disagree
             /\ closure.outcome = "Rejected" <=> agree <= disagree
             /\ InSeq(added, Call("send_message", "approved")) <=> agree > disagree
             /\ InSeq(added, Call("get_required_mod", bot_data[p].mod_url))
                    <=> agree > disagree
      ]_vars

\* a poll closed by the deadline on a tie of at least one vote each: rejected
C1_Witness ==
    \E p \in PollIds :
        /\ closures[p] = <<[by |-> "time", outcome |-> "Rejected"]>>
        /\ Agree(p) = Disagree(p)
        /\ Agree(p) > 0

\* C2: in every reachable state each voter has contributed at most one
\* increment: the tally and the answer count of a poll never exceed the
\* number of distinct users who voted in it.
C2_OneIncrementPerVoter ==
    \A p \in PollIds :
        /\ Agree(p) + Disagree(p) <= voters[p]
        /\ bot_data[p].answers <= voters[p]

\* C3: the step in which the answer count of a poll reaches the hard cap
\* closes the poll, for every configured quorum threshold.
C3_CapClosesAtOnce ==
    [][\A p \in PollIds :
        (bot_data[p].answers # HardCap /\ bot_data'[p].answers = HardCap)
            => Len(closures'[p]) = Len(closures[p]) + 1
      ]_vars

\* C4: a poll whose answer count has reached neither the quorum threshold nor
\* the hard cap is closed once its deadline has passed.
C4_ClosedAtDeadline ==
    \A p \in PollIds :
        ( /\ bot_data[p].answers < MINIMUM_AGREE_MEMBERS_FOR_MOD
          /\ bot_data[p].answers < HardCap
          /\ now > bot_data[p].poll_end_time )
            => Closed(p)

\* C5 as stated: when the answer count reaches the quorum threshold before
\* the deadline T, the new deadline is strictly earlier than T.
C5_QuorumShortens ==
    [][\A p \in PollIds :
        ( /\ bot_data[p].answers # MINIMUM_AGREE_MEMBERS_FOR_MOD
          /\ bot_data'[p].answers = MINIMUM_AGREE_MEMBERS_FOR_MOD
          /\ now < bot_data[p].poll_end_time )
            => bot_data'[p].poll_end_time < bot_data[p].poll_end_time
      ]_vars

\* C5 as amended: when the answer count reaches the quorum threshold, the
\* deadline is replaced by the time of that vote plus 1800 s and a job is
\* scheduled for it; the new deadline is strictly earlier than the old one
\* exactly when the vote is handled less than 1800 s after the poll opened.
C5_QuorumResetsDeadline ==
    [][\A p \in PollIds :
        ( /\ bot_data[p].answers # MINIMUM_AGREE_MEMBERS_FOR_MOD
          /\ bot_data'[p].answers = MINIMUM_AGREE_MEMBERS_FOR_MOD )
            => LET opened == deadline_hist[p][1] - PollWindow IN
               /\ bot_data'[p].poll_end_time = now + ExtendedWindow
               /\ [data |-> p, at |-> now + ExtendedWindow] \in job_queue'
               /\ bot_data'[p].poll_end_time < bot_data[p].poll_end_time
                    <=> now < opened + (PollWindow - ExtendedWindow)
      ]_vars

\* the quorum was reached and the deadline moved to an earlier time, with
\* the job of the new deadline pending
C5_Witness ==
    \E p \in PollIds :
        /\ bot_data[p].answers >= MINIMUM_AGREE_MEMBERS_FOR_MOD
        /\ Len(deadline_hist[p]) = 2
        /\ deadline_hist[p][2] < deadline_hist[p][1]
        /\ [data |-> p, at |-> bot_data[p].poll_end_time] \in job_queue

\* C6 as stated: every change of poll_end_time sets a value greater than or
\* equal to the previous one.
C6_DeadlineNeverEarlier ==
    [][\A p \in PollIds :
        bot_data'[p].poll_end_time >= bot_data[p].poll_end_time
      ]_vars

\* C6 as amended: poll_end_time changes at most once in the life of a poll,
\* to the time of the change plus 1800 s, which is later than the time of
\* the change; it is greater than or equal to the previous value only when
\* the change comes at least 1800 s after the poll opened.
C6_DeadlineSetAheadOfNow ==
    [][\A p \in PollIds :
        bot_data'[p].poll_end_time # bot_data[p].poll_end_time =>
          LET old == bot_data[p].poll_end_time
              new == bot_data'[p].poll_end_time
          IN /\ Len(deadline_hist[p]) = 1
             /\ old = deadline_hist[p][1]
             /\ new > now'
             /\ new - now' = ExtendedWindow
             /\ new >= old <=> now >= old - ExtendedWindow
      ]_vars

\* the deadline was changed once and moved to a later time
C6_Witness ==
    \E p \in PollIds :
        /\ Len(deadline_hist[p]) = 2
        /\ deadline_hist[p][2] > deadline_hist[p][1]
        /\ bot_data[p].poll_end_time = deadline_hist[p][2]

\* C7: once a poll has closed, its tally and its answer count never change.
C7_ClosedPollIsFrozen ==
    [][\A p \in PollIds :
        Closed(p) => /\ polls'[p] = polls[p]
                     /\ bot_data'[p].answers = bot_data[p].answers
      ]_vars

\* C8: a poll that has closed has had exactly one final-outcome message
\* (approved or rejected).
C8_OneOutcomeMessage ==
    \A p \in PollIds : Closed(p) => Cardinality(OutcomeMessages(p)) = 1

\* C9: the close procedure of a poll runs at most once.
C9_ClosedAtMostOnce ==
    \A p \in PollIds : Len(closures[p]) <= 1

\* C10 as stated: the configuration is changed only after the graph merge of
\* the same approved close, which follows the resolver call.
C10_GraphBeforeConfig ==
    \A p \in PollIds : \A i \in DOMAIN effects[p] :
        effects[p][i].op = "change_main_config" =>
            \E j \in 1..(i - 1) :
                /\ effects[p][j].op = "update_by_metadata"
                /\ \E k \in 1..(j - 1) :
                     /\ effects[p][k].op = "get_required_mod"
                     /\ \A m \in (k + 1)..i :
                          effects[p][m].op # "get_required_mod"

\* C10 as amended: on an approved close the resolver is run on the poll's
\* mod_url, then the batch is written to the configuration (WorkshopItems,
\* then Mods), then it is merged into the graph and the graph is saved; the
\* graph is never merged before the configuration is changed.
C10_ConfigBeforeGraph ==
    \A p \in PollIds : \A i \in DOMAIN effects[p] :
        LET log == effects[p] IN
        /\ log[i] = Call("send_message", "approved") =>
             /\ i + 2 <= Len(log)
             /\ log[i + 2] = Call("get_required_mod", bot_data[p].mod_url)
        /\ log[i].op = "update_by_metadata" =>
             /\ i > 4 /\ i < Len(log)
             /\ log[i - 4] = Call("get_required_mod", bot_data[p].mod_url)
             /\ log[i - 2] = Call("change_main_config", "WorkshopItems")
             /\ log[i - 1] = Call("change_main_config", "Mods")
             /\ log[i + 1] = Call("save", "")
        /\ log[i].op = "change_main_config" =>
             \E j \in (i + 1)..Len(log) : log[j].op = "update_by_metadata"

\* an approved close whose resolution returned a mapping ran to the end
C10_Witness ==
    \E p \in PollIds :
        /\ Closed(p)
        /\ Has(p, Call("save", ""))
        /\ Has(p, Call("send_message", "added"))

\* =====================================================================
\* The dependency resolver (ZomboidModManager.get_required_mod)
\* =====================================================================
\* calls of get_required_mod on one manager in one behaviour
MaxCalls == 2
\* consecutive time-outs of one URL during one call
MaxTimeouts == 3
\* URLs that time out during one call
MaxFaulty == 1

\* n_retry: int = 2
N_RETRY == 2

\* nested calls of _request_required_mod that the interpreter allows before
\* it raises RecursionError
RecursionLimit == 8

\* d[key] = value
DictPut(d, key, value) ==
    [ keys |-> IF InSeq(d.keys, key) THEN d.keys ELSE Append(d.keys, key),
      val |-> [k \in DOMAIN d.val \cup {key} |->
                  IF k = key THEN value ELSE d.val[k]] ]

\* key in d
DictHas(d, key) == key \in DOMAIN d.val

\* `if x:` for x a dict or None
Truthy(x) == ~x.none /\ x.map.keys # <<>>

get_url_from_mod_id(mod_id) == ZOMBOID_WORKSHOP_URL_PREFIX \o mod_id

\* re.search(r"id=(\d+)", url): the URLs of the model are those of the
\* catalog ids
get_workshop_id(url) ==
    IF \E id \in CatalogIds : url = get_url_from_mod_id(id)
    THEN CHOOSE id \in CatalogIds : url = get_url_from_mod_id(id)
    ELSE ""

\* the texts after the "Mod ID:" labels, the empty ones dropped
get_mod_id_from_html(page) == SelectSeq(page.labels, LAMBDA m : m # "")

\* the hrefs of the anchors of div#RequiredItems
RequiredHrefs(page) ==
    [i \in DOMAIN page.required_items |->
        get_url_from_mod_id(page.required_items[i])]

\* requests.get answers or raises requests.Timeout: in one call the first
\* net[id] fetches of the page of id time out
RequestTimesOut(workshop_id, st) ==
    st.attempts[workshop_id] < st.net[workshop_id]

\* soup.find(...) returns None for a missing element and .text then raises
ParseRaises(page) == ~page.has_title \/ ~page.has_highlight

RECURSIVE _request_required_mod(_, _, _, _)
RECURSIVE expand_required(_, _, _, _, _)

\* the loop over the anchors of div#RequiredItems, from the i-th on
expand_required(hrefs, i, workshop_id, mod_metadata, st) ==
    IF i > Len(hrefs) THEN [ret |-> mod_metadata, st |-> st]
    ELSE IF mod_metadata.none
    THEN \* `href not in mod_metadata` with mod_metadata None
         [ret |-> None, st |-> [st EXCEPT !.raised = "TypeError"]]
    ELSE IF DictHas(mod_metadata.map, hrefs[i])
    THEN expand_required(hrefs, i + 1, workshop_id, mod_metadata, st)
    ELSE IF st.depth >= RecursionLimit
    THEN \* the nested call exceeds the interpreter's recursion limit
         [ret |-> None, st |-> [st EXCEPT !.raised = "RecursionError"]]
    ELSE LET r == _request_required_mod(hrefs[i], mod_metadata, workshop_id,
                                        [st EXCEPT !.depth = @ + 1])
         IN IF r.st.raised # "" THEN r
            ELSE expand_required(hrefs, i + 1, workshop_id, r.ret,
                                 [r.st EXCEPT !.depth = st.depth])

\* one call of _request_required_mod; st carries the manager's
\* timed_out_url, the fetches made so far and the exception raised, if any
_request_required_mod(mod_url, mod_metadata_arg, child_workshop_id, st) ==
    LET mod_metadata == IF mod_metadata_arg.none THEN EmptyMap
                        ELSE mod_metadata_arg.map
        workshop_id == get_workshop_id(mod_url)
        page == catalog[workshop_id]
        timed_out == RequestTimesOut(workshop_id, st)
        fetched == [ st EXCEPT
            !.attempts[workshop_id] = @ + 1,
            !.fetched = Append(@, [ url |-> mod_url, round |-> st.round,
                                    outcome |-> IF timed_out THEN "timeout"
                                                ELSE "ok" ]) ]
    IN
    IF timed_out
    THEN \* except requests.Timeout: falls off the end, returns None
         [ ret |-> None,
           st |-> [fetched EXCEPT !.timed_out_url =
                      IF InSeq(@, mod_url) THEN @ ELSE Append(@, mod_url)] ]
    ELSE IF ParseRaises(page)
    THEN [ret |-> None, st |-> [fetched EXCEPT !.raised = "AttributeError"]]
    ELSE
      LET entry == [ url |-> mod_url,
                     mod_name |-> page.title,
                     workshop_id |-> workshop_id,
                     mod_id |-> get_mod_id_from_html(page),
                     required |-> <<>> ]
          with_entry == DictPut(mod_metadata, workshop_id, entry)
          linked ==
            IF child_workshop_id # ""
            THEN [with_entry EXCEPT !.val[child_workshop_id].required =
                                        Append(@, workshop_id)]
            ELSE with_entry
      IN expand_required(RequiredHrefs(page), 1, workshop_id,
                         Some(linked), fetched)

\* `for url in retry_urls`, from the i-th URL on
RECURSIVE retry_each(_, _, _, _)
retry_each(retry_urls, i, mod_metadata, st) ==
    IF i > Len(retry_urls) THEN [ret |-> mod_metadata, st |-> st]
    ELSE LET attempt == [url |-> retry_urls[i], round |-> st.round]
             r == _request_required_mod(retry_urls[i], None, "",
                      [st EXCEPT !.retried = Append(@, attempt)])
         IN IF r.st.raised # "" \/ Truthy(r.ret) THEN r
            ELSE retry_each(retry_urls, i + 1, r.ret, r.st)

\* `for _ in range(n_retry)`, from the given round on
RECURSIVE retry_rounds(_, _, _)
retry_rounds(round, mod_metadata, st) ==
    IF round > N_RETRY \/ st.timed_out_url = <<>>
    THEN [ret |-> mod_metadata, st |-> st]
    ELSE LET retry_urls == st.timed_out_url
             cleared == [st EXCEPT !.timed_out_url = <<>>,
                                   !.round = round,
                                   !.rounds = Append(@, retry_urls)]
             r == retry_each(retry_urls, 1, mod_metadata, cleared)
         IN IF r.st.raised # "" THEN r
            ELSE retry_rounds(round + 1, r.ret, r.st)

get_required_mod(mod_url, net) ==
    LET st == [ timed_out_url |-> mod_manager.timed_out_url,
                attempts |-> [id \in CatalogIds |-> 0],
                net |-> net,
                round |-> 0,
                depth |-> 0,
                fetched |-> <<>>,
                rounds |-> <<>>,
                retried |-> <<>>,
                raised |-> "" ]
        first == _request_required_mod(mod_url, None, "", st)
    IN IF first.st.raised # "" THEN first
       ELSE retry_rounds(1, first.ret, first.st)

\* a caller resolves the item `root` while the Workshop lets the first
\* net[id] fetches of each page time out
GetRequiredMod(root, net) ==
    /\ resolution.calls < MaxCalls
    /\ LET r == get_required_mod(get_url_from_mod_id(root), net) IN
       /\ mod_manager' = [mod_manager EXCEPT
                             !.timed_out_url = r.st.timed_out_url]
       /\ resolution' =
            [ calls |-> resolution.calls + 1,
              root |-> root,
              net |-> net,
              ret |-> r.ret,
              raised |-> r.st.raised,
              pending_at_start |-> mod_manager.timed_out_url,
              fetched |-> r.st.fetched,
              rounds |-> r.st.rounds,
              retried |-> r.st.retried ]
    /\ UNCHANGED <<catalog, vote_vars, graph_vars, manager_vars,
                   command_vars>>

InitResolver ==
    /\ VoteInit
    /\ MINIMUM_AGREE_MEMBERS_FOR_MOD = CHOOSE q \in QuorumChoices : TRUE
    /\ catalog \in Catalogs
    /\ mod_manager = NewManager
    /\ resolution = NoResolution
    /\ mod_graph = NewGraph
    /\ disk = EmptyDisk
    /\ graph_ops = <<>>
    /\ ManagerInit
    /\ CommandInit

\* how the Workshop answers during one call: for each page, the number of
\* fetches that time out before one is answered
Nets ==
    {net \in [CatalogIds -> 0..MaxTimeouts] :
        Cardinality({id \in CatalogIds : net[id] > 0}) <= MaxFaulty}

NextResolver ==
    \E root \in CatalogIds, net \in Nets : GetRequiredMod(root, net)

SpecResolver == InitResolver /\ [][NextResolver]_vars

\* ---------------------------------------------- properties of the resolver
Range(seq) == {seq[i] : i \in DOMAIN seq}
Keys(x) == IF x.none THEN {} ELSE DOMAIN x.map.val

\* the ids reachable from `ids` through at most n required references
RECURSIVE ReachFrom(_, _)
ReachFrom(ids, n) ==
    IF n = 0 THEN ids
    ELSE ReachFrom(ids \cup UNION {Range(catalog[id].required_items) : id \in ids},
                   n - 1)
Reachable(root) == ReachFrom({root}, Cardinality(CatalogIds))

\* the page has a title, a highlight block and at least one "Mod ID:" label
WellFormed(id) ==
    /\ catalog[id].has_title
    /\ catalog[id].has_highlight
    /\ catalog[id].labels # <<>>

Resolved == resolution.calls > 0
NoFetchTimedOut ==
    \A i \in DOMAIN resolution.fetched : resolution.fetched[i].outcome = "ok"
\* the fetches of the page of id made in the given round (0: initial pass)
FetchesOf(id, round) ==
    {i \in DOMAIN resolution.fetched :
        /\ resolution.fetched[i].url = get_url_from_mod_id(id)
        /\ resolution.fetched[i].round = round}
TimedOutIn(id, round) ==
    \E i \in FetchesOf(id, round) : resolution.fetched[i].outcome = "timeout"
FetchedIn(id, round) ==
    \E i \in FetchesOf(id, round) : resolution.fetched[i].outcome = "ok"
\* the entry of id in the returned mapping is the item's full metadata
FullEntry(id) ==
    /\ id \in Keys(resolution.ret)
    /\ LET entry == resolution.ret.map.val[id] IN
       /\ entry.mod_name = catalog[id].title
       /\ entry.mod_name # ""
       /\ entry.url = get_url_from_mod_id(id)
       /\ entry.workshop_id = id
       /\ entry.mod_id = catalog[id].labels

\* C11: when every page reachable from the root is well formed and no fetch
\* of the call times out, get_required_mod returns a mapping whose keys are
\* exactly the root and the ids reachable from it, each entry with a
\* non-empty display name and the required list declared by its page.
C11_ReturnsClosure ==
    ( /\ Resolved
      /\ \A id \in Reachable(resolution.root) : WellFormed(id)
      /\ NoFetchTimedOut )
        => /\ resolution.raised = ""
           /\ ~resolution.ret.none
           /\ Keys(resolution.ret) = Reachable(resolution.root)
           /\ \A id \in Keys(resolution.ret) :
                /\ resolution.ret.map.val[id].mod_name # ""
                /\ resolution.ret.map.val[id].required
                       = catalog[id].required_items

\* the call started with no URL pending and every page it can reach is
\* well formed
CleanCall ==
    /\ Resolved
    /\ resolution.pending_at_start = <<>>
    /\ \A id \in Reachable(resolution.root) : WellFormed(id)

\* C12: in the initial pass of a call no page is fetched more than once.
C12_FetchedOncePerPass ==
    CleanCall =>
        \A id \in CatalogIds : Cardinality(FetchesOf(id, 0)) <= 1

\* C13: when the first fetch of a required item times out in the initial
\* pass and the Workshop answers its next fetch, the call returns a mapping
\* that holds the item's full metadata.
C13_RetriedItemIsReturned ==
    CleanCall =>
        \A id \in Reachable(resolution.root) \ {resolution.root} :
            (resolution.net[id] = 1 /\ TimedOutIn(id, 0))
                => /\ resolution.raised = ""
                   /\ FullEntry(id)

\* the ids reachable from `ids` through at most n required references that
\* do not pass through `avoid`
RECURSIVE ReachFromAvoiding(_, _, _)
ReachFromAvoiding(ids, avoid, n) ==
    IF n = 0 THEN ids
    ELSE ReachFromAvoiding(
            ids \cup (UNION {Range(catalog[id].required_items) : id \in ids}
                        \ {avoid}),
            avoid, n - 1)
\* the items reachable from the root outside the subtree of `avoid`
ReachableAvoiding(root, avoid) ==
    ReachFromAvoiding({root}, avoid, Cardinality(CatalogIds))

\* C14: a call that raises nothing runs at most n_retry retry rounds, retries
\* in each round every URL that was pending at the start of the round, and
\* runs fewer than n_retry rounds only if no URL is pending at the end.
C14_EveryPendingUrlRetried ==
    (Resolved /\ resolution.raised = "") =>
        /\ Len(resolution.rounds) <= N_RETRY
        /\ \A round \in DOMAIN resolution.rounds :
             \A url \in Range(resolution.rounds[round]) :
                InSeq(resolution.retried, [url |-> url, round |-> round])
        /\ Len(resolution.rounds) < N_RETRY
              => mod_manager.timed_out_url = <<>>

\* C15: when a required item times out at every attempt of a call, the call
\* returns a mapping whose keys are the root and the items reachable outside
\* the subtree of that item.
C15_PartialMappingReturned ==
    CleanCall =>
        \A id \in Reachable(resolution.root) \ {resolution.root} :
            (resolution.net[id] > N_RETRY /\ TimedOutIn(id, 0))
                => /\ resolution.raised = ""
                   /\ ~resolution.ret.none
                   /\ Keys(resolution.ret)
                        = ReachableAvoiding(resolution.root, id)

\* the items that follow `id` among the required items of `parent`
LaterSiblings(parent, id) ==
    LET items == catalog[parent].required_items IN
    {items[j] : j \in {k \in DOMAIN items :
                          \E i \in 1..(k - 1) : items[i] = id}}

\* C16: when the fetch of a required item times out in the initial pass, its
\* URL is pending afterwards or was retried, the later siblings of the item
\* are fetched in the same pass, the entries made before the time-out are
\* in the returned mapping, and the call raises nothing.
C16_TimeoutAbandonsOneBranch ==
    CleanCall =>
        \A id \in Reachable(resolution.root) \ {resolution.root} :
            TimedOutIn(id, 0) =>
                /\ resolution.raised = ""
                /\ \/ InSeq(mod_manager.timed_out_url, get_url_from_mod_id(id))
                   \/ \E round \in DOMAIN resolution.rounds :
                        InSeq(resolution.rounds[round], get_url_from_mod_id(id))
                /\ \A parent \in Reachable(resolution.root) :
                     FetchedIn(parent, 0) =>
                        \A sibling \in LaterSiblings(parent, id) :
                            FetchesOf(sibling, 0) # {}
                /\ resolution.root \in Keys(resolution.ret)

\* the page of id lacks its title element or has no "Mod ID:" match
ParseFailure(id) ==
    \/ ~catalog[id].has_title
    \/ get_mod_id_from_html(catalog[id]) = <<>>

\* C17: when a required item's page is fetched and lacks its title or has no
\* "Mod ID:" match, and no fetch times out, the call raises nothing and
\* returns a mapping without that item and with the root and every item
\* reachable outside the item's subtree; the item's URL is not pending.
C17_ParseFailureIsLocal ==
    (Resolved /\ resolution.pending_at_start = <<>> /\ NoFetchTimedOut) =>
        \A id \in Reachable(resolution.root) \ {resolution.root} :
            ParseFailure(id) =>
                /\ resolution.raised = ""
                /\ ~resolution.ret.none
                /\ id \notin Keys(resolution.ret)
                /\ ReachableAvoiding(resolution.root, id)
                        \subseteq Keys(resolution.ret)
                /\ ~InSeq(mod_manager.timed_out_url, get_url_from_mod_id(id))

\* =====================================================================
\* The mod graph (ZomboidModGraph)
\* =====================================================================
\* graph operations in one behaviour
MaxGraphOps == 4

\* a vertex attribute that was never assigned reads as None; None is kept
\* as the text "None", for the list attribute as a list holding that text
NoneValue == "None"
NoneList == <<NoneValue>>

Vertex(name, mod_name, url, mod_id) ==
    [name |-> name, mod_name |-> mod_name, url |-> url, mod_id |-> mod_id]

\* an entry of a metadata mapping; a missing "required" key reads as []
Entry(workshop_id, mod_name, internal_ids, required) ==
    [ url |-> get_url_from_mod_id(workshop_id),
      mod_name |-> mod_name,
      workshop_id |-> workshop_id,
      mod_id |-> internal_ids,
      required |-> required ]

\* the dict {keys[1]: entries[1], ...}
RECURSIVE DictOf(_, _)
DictOf(entries, n) ==
    IF n = 0 THEN EmptyMap
    ELSE DictPut(DictOf(entries, n - 1), entries[n].workshop_id, entries[n])
MakeDict(entries) == DictOf(entries, Len(entries))

\* the metadata mappings given to the graph: item 1 with two requirements
\* that are not in the batch; item 1 with another required list, and item 2;
\* items 2 and 3, 2 requiring 3 before the entry of 3 is read and 3
\* requiring 1; item 1 renamed, with nothing required
Batches ==
    { MakeDict(<<Entry("1", "One", <<"one">>, <<"2", "3">>)>>),
      MakeDict(<<Entry("1", "One", <<"one">>, <<"2">>),
                 Entry("2", "Two", <<"two", "two_b">>, <<>>)>>),
      MakeDict(<<Entry("2", "Two", <<"two">>, <<"3">>),
                 Entry("3", "Three", <<"three">>, <<"1">>)>>),
      MakeDict(<<Entry("1", "Uno", <<"one">>, <<>>)>>) }

\* self.graph.vs["name"]
Names(graph) == {graph.vs[i].name : i \in DOMAIN graph.vs}

\* graph.vs.find(name=...): the first vertex of that name
find(graph, name) ==
    CHOOSE i \in DOMAIN graph.vs :
        /\ graph.vs[i].name = name
        /\ \A j \in 1..(i - 1) : graph.vs[j].name # name

\* graph.add_vertices(names): vertices that have a name and nothing else
add_vertices(graph, names) ==
    [graph EXCEPT !.vs = @ \o
        [i \in DOMAIN names |->
            Vertex(names[i], NoneValue, NoneValue, NoneList)]]

add_vertex(graph, vertex) == [graph EXCEPT !.vs = Append(@, vertex)]

\* graph.are_connected(source, target): an edge source -> target exists
are_connected(graph, source, target) ==
    \E e \in DOMAIN graph.es : graph.es[e] = <<source, target>>

add_edge(graph, source, target) ==
    [graph EXCEPT !.es = Append(@, <<source, target>>)]

\* the attribute update as it would be if an existing node were left alone
KeepAttributes(graph, name, data) == graph

\* v["mod_name"] = ...; v["url"] = ...; v["mod_id"] = ... on the vertex found
SetAttributes(graph, name, data) ==
    [graph EXCEPT !.vs[find(graph, name)] =
        Vertex(name, data.mod_name, data.url, data.mod_id)]

\* _build_graph: the loop that sets the attributes, from the i-th key on
RECURSIVE BuildAttributes(_, _, _)
BuildAttributes(graph, mod_data, i) ==
    IF i > Len(mod_data.keys) THEN graph
    ELSE BuildAttributes(
            SetAttributes(graph, mod_data.keys[i], mod_data.val[mod_data.keys[i]]),
            mod_data, i + 1)

\* _build_graph: the edge list, from the j-th requirement of the i-th key on
RECURSIVE BuildEdges(_, _, _)
BuildEdges(mod_data, i, j) ==
    IF i > Len(mod_data.keys) THEN <<>>
    ELSE LET mod_id == mod_data.keys[i]
             required == mod_data.val[mod_id].required
         IN IF j > Len(required) THEN BuildEdges(mod_data, i + 1, 1)
            ELSE (IF DictHas(mod_data, required[j])
                  THEN <<<<mod_id, required[j]>>>> ELSE <<>>)
                 \o BuildEdges(mod_data, i, j + 1)

\* graph.add_edges(edges) with vertex names: each name is looked up
add_edges(graph, edges) ==
    [graph EXCEPT !.es = @ \o
        [e \in DOMAIN edges |->
            <<find(graph, edges[e][1]), find(graph, edges[e][2])>>]]

\* ZomboidModGraph._build_graph on the graph the object holds
_build_graph(graph, mod_data) ==
    add_edges(
        BuildAttributes(add_vertices(graph, mod_data.keys), mod_data, 1),
        BuildEdges(mod_data, 1, 1))

\* ZomboidModGraph(mod_data)
NewGraphFrom(mod_data) ==
    IF mod_data.keys # <<>>
    THEN [graph |-> _build_graph(NewGraph.graph, mod_data),
          mod_data |-> mod_data]
    ELSE NewGraph

\* the edge test as it would be without are_connected
EdgeAlwaysMissing(graph, source, target) == TRUE

\* `if not self.graph.are_connected(source_idx, target_idx)`
EdgeMissing(graph, source, target) == ~are_connected(graph, source, target)

\* update_by_metadata: the loop over the required ids of one entry, from
\* the j-th on; s holds the graph, mod_data and the set existing_nodes
RECURSIVE MergeRequired(_, _, _, _)
MergeRequired(s, workshop_id, required_ids, j) ==
    IF j > Len(required_ids) THEN s
    ELSE
      LET dep_id == required_ids[j]
          with_stub ==
            IF dep_id \notin s.existing_nodes
            THEN [s EXCEPT
                    !.graph = add_vertex(@, Vertex(dep_id, "", "", <<>>)),
                    !.existing_nodes = @ \cup {dep_id}]
            ELSE s
          source_idx == find(with_stub.graph, workshop_id)
          target_idx == find(with_stub.graph, dep_id)
          with_edge ==
            IF EdgeMissing(with_stub.graph, source_idx, target_idx)
            THEN [with_stub EXCEPT
                    !.graph = add_edge(@, source_idx, target_idx)]
            ELSE with_stub
      IN MergeRequired(with_edge, workshop_id, required_ids, j + 1)

\* update_by_metadata: the loop over the entries of the batch, from the i-th
RECURSIVE MergeEntries(_, _, _)
MergeEntries(s, new_mod_data, i) ==
    IF i > Len(new_mod_data.keys) THEN s
    ELSE
      LET workshop_id == new_mod_data.keys[i]
          data == new_mod_data.val[workshop_id]
          stored == [s EXCEPT !.mod_data = DictPut(@, workshop_id, data)]
          with_node ==
            IF workshop_id \notin s.existing_nodes
            THEN [stored EXCEPT
                    !.graph = add_vertex(@,
                        Vertex(workshop_id, data.mod_name, data.url,
                               data.mod_id)),
                    !.existing_nodes = @ \cup {workshop_id}]
            ELSE [stored EXCEPT
                    !.graph = SetAttributes(@, workshop_id, data)]
      IN MergeEntries(
            MergeRequired(with_node, workshop_id, data.required, 1),
            new_mod_data, i + 1)

\* ZomboidModGraph.update_by_metadata on the object obj
update_by_metadata(obj, new_mod_data) ==
    LET s == MergeEntries(
                [ graph |-> obj.graph,
                  mod_data |-> obj.mod_data,
                  existing_nodes |-> Names(obj.graph) ],
                new_mod_data, 1)
    IN [graph |-> s.graph, mod_data |-> s.mod_data]

\* graph.write_graphmlz: GraphML stores texts, numbers and booleans, so the
\* list attribute mod_id is not written
write_graphmlz(graph) ==
    [ vs |-> [i \in DOMAIN graph.vs |->
                [graph.vs[i] EXCEPT !.mod_id = NoneList]],
      es |-> graph.es ]

\* ig.Graph.Read_GraphMLz
Read_GraphMLz(content) == content

\* ZomboidModGraph.save
save(obj, graphml_path, meta_path) ==
    [ graphml |->
        IF graphml_path
        THEN [exists |-> TRUE, content |-> write_graphmlz(obj.graph)]
        ELSE disk.graphml,
      meta |->
        IF meta_path /\ obj.mod_data.keys # <<>>
        THEN [exists |-> TRUE, content |-> obj.mod_data]
        ELSE disk.meta ]

\* ZomboidModGraph.load
load(graphml_path, meta_path) ==
    LET graph == IF graphml_path THEN Read_GraphMLz(disk.graphml.content)
                 ELSE NewGraph.graph
    IN IF meta_path /\ disk.meta.exists
       THEN [ graph |-> _build_graph(graph, disk.meta.content),
              mod_data |-> disk.meta.content ]
       ELSE [graph |-> graph, mod_data |-> NewGraph.mod_data]

GraphOp(op, arg) == [op |-> op, arg |-> arg]
PathChoices == {<<TRUE, FALSE>>, <<FALSE, TRUE>>, <<TRUE, TRUE>>}

\* a graph object is constructed from a metadata mapping
Construct(mod_data) ==
    /\ Len(graph_ops) < MaxGraphOps
    /\ mod_graph' = NewGraphFrom(mod_data)
    /\ graph_ops' = Append(graph_ops, GraphOp("construct", mod_data))
    /\ UNCHANGED <<disk, vote_vars, resolver_vars, manager_vars,
                   command_vars>>

UpdateByMetadata(new_mod_data) ==
    /\ Len(graph_ops) < MaxGraphOps
    /\ mod_graph' = update_by_metadata(mod_graph, new_mod_data)
    /\ graph_ops' = Append(graph_ops,
                           GraphOp("update_by_metadata", new_mod_data))
    /\ UNCHANGED <<disk, vote_vars, resolver_vars, manager_vars,
                   command_vars>>

Save(paths) ==
    /\ Len(graph_ops) < MaxGraphOps
    /\ disk' = save(mod_graph, paths[1], paths[2])
    /\ graph_ops' = Append(graph_ops, GraphOp("save", paths))
    /\ UNCHANGED <<mod_graph, vote_vars, resolver_vars, manager_vars,
                   command_vars>>

\* load raises FileNotFoundError for a topology file that does not exist
Load(paths) ==
    /\ Len(graph_ops) < MaxGraphOps
    /\ paths[1] => disk.graphml.exists
    /\ mod_graph' = load(paths[1], paths[2])
    /\ graph_ops' = Append(graph_ops, GraphOp("load", paths))
    /\ UNCHANGED <<disk, vote_vars, resolver_vars, manager_vars,
                   command_vars>>

InitGraph ==
    /\ VoteInit
    /\ MINIMUM_AGREE_MEMBERS_FOR_MOD = CHOOSE q \in QuorumChoices : TRUE
    /\ IdleInit

NextGraph ==
    \/ \E mod_data \in Batches : Construct(mod_data)
    \/ \E new_mod_data \in Batches : UpdateByMetadata(new_mod_data)
    \/ \E paths \in PathChoices : Save(paths)
    \/ \E paths \in PathChoices : Load(paths)

SpecGraph == InitGraph /\ [][NextGraph]_vars

\* ------------------------------------------------- properties of the graph
LastOp(ops) == ops[Len(ops)]
\* the step is update_by_metadata(batch)
MergeStep(batch) ==
    graph_ops' = Append(graph_ops, GraphOp("update_by_metadata", batch))
HasVertex(graph, vertex) == \E i \in DOMAIN graph.vs : graph.vs[i] = vertex
\* an edge joins a vertex named owner to a vertex named required
HasEdge(graph, owner, required) ==
    \E e \in DOMAIN graph.es :
        /\ graph.vs[graph.es[e][1]].name = owner
        /\ graph.vs[graph.es[e][2]].name = required

\* C18: after update_by_metadata(batch), on whatever graph, every id of the
\* batch is a node with the batch's display name, url and internal ids,
\* every required id of a batch entry is a node (with empty attributes if it
\* was not a node before and is not in the batch), and an edge joins the
\* owner to each id it requires.
C18_MergePostcondition ==
    [][\A batch \in Batches : MergeStep(batch) =>
        \A id \in DOMAIN batch.val :
            LET data == batch.val[id] IN
            /\ HasVertex(mod_graph'.graph,
                         Vertex(id, data.mod_name, data.url, data.mod_id))
            /\ \A dep_id \in Range(data.required) :
                /\ dep_id \in Names(mod_graph'.graph)
                /\ (dep_id \notin Names(mod_graph.graph)
                        /\ dep_id \notin DOMAIN batch.val)
                     => HasVertex(mod_graph'.graph,
                                  Vertex(dep_id, "", "", <<>>))
                /\ HasEdge(mod_graph'.graph, id, dep_id)
      ]_vars

\* a batch was merged into a graph that already had nodes: an existing node
\* took the batch's attributes and a required id became a stub
C18_Witness ==
    /\ Len(graph_ops) >= 2
    /\ LastOp(graph_ops).op = "update_by_metadata"
    /\ graph_ops[Len(graph_ops) - 1].op = "update_by_metadata"
    /\ \E id \in DOMAIN LastOp(graph_ops).arg.val :
        /\ LastOp(graph_ops).arg.val[id].mod_name
             # graph_ops[Len(graph_ops) - 1].arg.val[id].mod_name
        /\ id \in DOMAIN graph_ops[Len(graph_ops) - 1].arg.val
    /\ \E i \in DOMAIN mod_graph.graph.vs :
        /\ mod_graph.graph.vs[i].mod_name = ""
        /\ \E e \in DOMAIN mod_graph.graph.es : mod_graph.graph.es[e][2] = i

\* C19: update_by_metadata(batch) applied right after update_by_metadata of
\* the same batch changes neither the vertices and their attributes, nor the
\* edges, nor the metadata mapping.
C19_MergeIdempotent ==
    [][\A batch \in Batches :
        ( /\ MergeStep(batch)
          /\ graph_ops # <<>>
          /\ LastOp(graph_ops) = GraphOp("update_by_metadata", batch) )
            => mod_graph' = mod_graph
      ]_vars

\* the same batch, with required ids, was merged twice in a row into a graph
\* that had been built before
C19_Witness ==
    /\ Len(graph_ops) >= 3
    /\ LastOp(graph_ops).op = "update_by_metadata"
    /\ graph_ops[Len(graph_ops) - 1] = LastOp(graph_ops)
    /\ \E id \in DOMAIN LastOp(graph_ops).arg.val :
        LastOp(graph_ops).arg.val[id].required # <<>>
    /\ mod_graph.graph.es # <<>>

\* C20: in every reachable state of the graph no two vertices have the same
\* catalog id, no ordered pair of vertices is joined by two edges, and the
\* endpoints of every edge are vertices.
C20_GraphWellFormed ==
    LET graph == mod_graph.graph IN
    /\ \A i, j \in DOMAIN graph.vs :
          graph.vs[i].name = graph.vs[j].name => i = j
    /\ \A e, f \in DOMAIN graph.es : graph.es[e] = graph.es[f] => e = f
    /\ \A e \in DOMAIN graph.es :
          /\ graph.es[e][1] \in DOMAIN graph.vs
          /\ graph.es[e][2] \in DOMAIN graph.vs

\* =====================================================================
\* The mod manager: graph queries, deletion, the server configuration
\* =====================================================================
\* add_to_config calls in one behaviour
MaxAdds == 2

\* str.lower() on the display names and identifiers of the model
Lower(text) ==
    CASE text = "One" -> "one"
      [] text = "ONE" -> "one"
      [] text = "Uno" -> "uno"
      [] text = "Two" -> "two"
      [] text = "Three" -> "three"
      [] OTHER -> text

\* graph.predecessors(index): the sources of the edges that end at index
predecessors(graph, index) ==
    LET into == SelectSeq(graph.es, LAMBDA e : e[2] = index)
    IN [k \in DOMAIN into |-> into[k][1]]

\* the successors as they would be with the edges read backwards
SuccessorsBackwards(graph, index) == predecessors(graph, index)

\* graph.successors(index): the targets of the edges that start at index
successors(graph, index) ==
    LET out == SelectSeq(graph.es, LAMBDA e : e[1] = index)
    IN [k \in DOMAIN out |-> out[k][2]]

\* [v for v in self.graph.vs if v["mod_name"].lower() == identifier.lower()]
matches(graph, identifier) ==
    {i \in DOMAIN graph.vs :
        Lower(graph.vs[i].mod_name) = Lower(identifier)}

\* the vertex get_dependencies and get_dependents work on. A graph that never
\* had a vertex has no attribute "name" and vs["name"] raises KeyError; None
\* has no method lower.
matched(graph, identifier) ==
    IF graph.vs = <<>> THEN [raised |-> "KeyError", index |-> 0]
    ELSE IF identifier \in Names(graph)
    THEN [raised |-> "", index |-> find(graph, identifier)]
    ELSE IF \E i \in DOMAIN graph.vs : graph.vs[i].mod_name = NoneValue
    THEN [raised |-> "AttributeError", index |-> 0]
    ELSE IF Cardinality(matches(graph, identifier)) = 1
    THEN [raised |-> "",
          index |-> CHOOSE i \in matches(graph, identifier) : TRUE]
    ELSE IF Cardinality(matches(graph, identifier)) > 1
    THEN [raised |-> "ValueError: Ambiguous mod name", index |-> 0]
    ELSE [raised |-> "ValueError: No mod found", index |-> 0]

\* [self.graph.vs[idx]["name"] for idx in ...]
NamesAt(graph, indices) == [k \in DOMAIN indices |-> graph.vs[indices[k]].name]

\* what a query gives: the vertex it worked on, the list or the exception
Answer(graph, found, indices) ==
    IF found.raised # ""
    THEN [node |-> "", ret |-> <<>>, raised |-> found.raised]
    ELSE [node |-> graph.vs[found.index].name,
          ret |-> NamesAt(graph, indices), raised |-> ""]

get_dependencies(graph, identifier) ==
    LET found == matched(graph, identifier) IN
    Answer(graph, found,
           IF found.raised = "" THEN successors(graph, found.index) ELSE <<>>)

get_dependents(graph, identifier) ==
    LET found == matched(graph, identifier) IN
    Answer(graph, found,
           IF found.raised = "" THEN predecessors(graph, found.index) ELSE <<>>)

\* the test of delete_mod as it would be without the check of dependents
NeverRejected(dependents, force) == FALSE

\* `if dependents and not force`
DeleteRejected(dependents, force) == dependents # <<>> /\ ~force

\* ZomboidModManager.delete_mod: an exception of get_mod_dependents leaves
\* the call; nothing else is done before True is returned
delete_mod(graph, identifier, force) ==
    LET dependents == get_dependents(graph, identifier) IN
    IF dependents.raised # ""
    THEN [node |-> "", done |-> FALSE, raised |-> dependents.raised]
    ELSE IF DeleteRejected(dependents.ret, force)
    THEN [node |-> dependents.node, done |-> FALSE, raised |-> "ValueError"]
    ELSE [node |-> dependents.node, done |-> TRUE, raised |-> ""]

\* ---------------------------------------------------- the configuration
\* config_parser.get("default_section", key)
get_main_config_value(config, key) == config.parser[key]

\* the text "key=" is found in the line of line_key: the pattern of re.sub is
\* not tied to the start of a line
FoundIn(line_key, key) ==
    \/ line_key = key
    \/ line_key = "RCONPassword" /\ key = "Password"

\* _write_config: re.sub replaces every "key=<one character or more>" up to
\* the end of its line, so the line of a key whose value is empty is left as
\* it is; read_mod_config then reads every key of the file into the parser
\* again
_write_config(config, key, value) ==
    LET written == [line_key \in DOMAIN config.file |->
                      IF FoundIn(line_key, key)
                            /\ config.file[line_key] # EmptyValue
                      THEN value
                      ELSE config.file[line_key]]
    IN [parser |-> written, file |-> written]

change_main_config(config, key, value) == _write_config(config, key, value)

\* add_to_config: the loop over mod_metadata.values(), from the i-th on
RECURSIVE InsertEntries(_, _, _)
InsertEntries(lists, mod_metadata, i) ==
    IF i > Len(mod_metadata.keys) THEN lists
    ELSE
      LET metadata == mod_metadata.val[mod_metadata.keys[i]] IN
      InsertEntries(
        IF ~InSeq(lists.workshop_ids, metadata.workshop_id)
        THEN [ mod_ids |-> metadata.mod_id \o lists.mod_ids,
               workshop_ids |-> <<metadata.workshop_id>> \o lists.workshop_ids ]
        ELSE lists,
        mod_metadata, i + 1)

\* add_to_config: the two lists as they are written to the configuration
NewLists(config, mod_metadata) ==
    InsertEntries(
        [ workshop_ids |-> get_main_config_value(config, "WorkshopItems"),
          mod_ids |-> get_main_config_value(config, "Mods") ],
        mod_metadata, 1)

\* the metadata mappings given to add_to_config: those given to the graph, an
\* item whose display name is that of item 1 in capitals, and item 1 with a
\* required item whose display name is the catalog id of item 1
Installs ==
    Batches \cup
    { MakeDict(<<Entry("3", "ONE", <<"three">>, <<>>)>>),
      MakeDict(<<Entry("1", "One", <<"one">>, <<"2">>),
                 Entry("2", "1", <<"two">>, <<"3">>)>>) }

\* the identifiers given to the queries and to delete_mod
Identifiers == {"1", "2", "3", "one", "Two", "uno", "nobody"}

\* the values of WorkshopItems and Mods in the .ini file at start-up
ConfigChoices ==
    { ConfigOf(EmptyValue, EmptyValue),
      ConfigOf(<<"9">>, <<"nine">>),
      ConfigOf(EmptyValue, <<"nine">>) }

ManagerCall(op, arg, force, answer) ==
    [ op |-> op, arg |-> arg, force |-> force, node |-> answer.node,
      ret |-> answer.ret, done |-> answer.done, raised |-> answer.raised ]

\* ZomboidModManager.add_to_config
AddToConfig(mod_metadata) ==
    /\ add_calls < MaxAdds
    /\ LET lists == NewLists(zomboid_config, mod_metadata)
           merged == update_by_metadata(mod_graph, mod_metadata)
       IN /\ zomboid_config' =
                change_main_config(
                    change_main_config(zomboid_config, "WorkshopItems",
                                       lists.workshop_ids),
                    "Mods", lists.mod_ids)
          /\ mod_graph' = merged
          /\ disk' = save(merged, FALSE, TRUE)
    /\ manager_call' = [NoCall EXCEPT !.op = "add_to_config",
                                      !.arg = mod_metadata]
    /\ add_calls' = add_calls + 1
    /\ UNCHANGED <<graph_ops, vote_vars, resolver_vars, command_vars>>

\* ZomboidModGraph.get_dependencies, and get_dependents through
\* ZomboidModManager.get_mod_dependents
GetDependencies(identifier) ==
    /\ manager_call' =
        ManagerCall("get_dependencies", identifier, FALSE,
            [done |-> FALSE] @@ get_dependencies(mod_graph.graph, identifier))
    /\ UNCHANGED <<zomboid_config, add_calls, graph_vars, vote_vars,
                   resolver_vars, command_vars>>

GetDependents(identifier) ==
    /\ manager_call' =
        ManagerCall("get_dependents", identifier, FALSE,
            [done |-> FALSE] @@ get_dependents(mod_graph.graph, identifier))
    /\ UNCHANGED <<zomboid_config, add_calls, graph_vars, vote_vars,
                   resolver_vars, command_vars>>

DeleteMod(identifier, force) ==
    /\ manager_call' =
        ManagerCall("delete_mod", identifier, force,
            [ret |-> <<>>] @@ delete_mod(mod_graph.graph, identifier, force))
    /\ UNCHANGED <<zomboid_config, add_calls, graph_vars, vote_vars,
                   resolver_vars, command_vars>>

\* ZomboidModManager.__init__ when the bot is started again: the .ini file is
\* read, and the graph is loaded from the metadata document if there is one
StartManager ==
    /\ zomboid_config' = [zomboid_config EXCEPT !.parser = zomboid_config.file]
    /\ mod_graph' = IF disk.meta.exists THEN load(FALSE, TRUE) ELSE NewGraph
    /\ manager_call' = [NoCall EXCEPT !.op = "__init__"]
    /\ UNCHANGED <<add_calls, disk, graph_ops, vote_vars, resolver_vars,
                   command_vars>>

InitManager ==
    /\ VoteInit
    /\ MINIMUM_AGREE_MEMBERS_FOR_MOD = CHOOSE q \in QuorumChoices : TRUE
    /\ catalog = Diamond
    /\ mod_manager = NewManager
    /\ resolution = NoResolution
    /\ mod_graph = NewGraph
    /\ disk = EmptyDisk
    /\ graph_ops = <<>>
    /\ zomboid_config \in ConfigChoices
    /\ manager_call = [NoCall EXCEPT !.op = "__init__"]
    /\ add_calls = 0
    /\ CommandInit

NextManager ==
    \/ \E mod_metadata \in Installs : AddToConfig(mod_metadata)
    \/ \E identifier \in Identifiers : GetDependencies(identifier)
    \/ \E identifier \in Identifiers : GetDependents(identifier)
    \/ \E identifier \in Identifiers, force \in BOOLEAN :
            DeleteMod(identifier, force)
    \/ StartManager

SpecManager == InitManager /\ [][NextManager]_vars

\* ----------------------------------------------- properties of the manager
Queries == {"get_dependencies", "get_dependents"}
\* the last call was a query whose identifier is no node's catalog id
QueriedByName ==
    /\ manager_call.op \in Queries
    /\ manager_call.arg \notin Names(mod_graph.graph)
\* the nodes whose display name is the identifier of the last call, letter
\* case aside
SameName ==
    {i \in DOMAIN mod_graph.graph.vs :
        Lower(mod_graph.graph.vs[i].mod_name) = Lower(manager_call.arg)}

\* C21: a query whose identifier is no node's catalog id and matches no
\* display name raises the not-found error, and one that matches two or more
\* display names raises the ambiguous-identifier error, on every graph, the
\* empty graph included.
C21_LookupErrors ==
    QueriedByName =>
        /\ SameName = {} => manager_call.raised = "ValueError: No mod found"
        /\ Cardinality(SameName) >= 2
              => manager_call.raised = "ValueError: Ambiguous mod name"

\* the node an identifier stands for: the node of that catalog id if there is
\* one, otherwise the only node of that display name; "" if there is none
NodeOf(graph, identifier) ==
    LET same == {i \in DOMAIN graph.vs :
                    Lower(graph.vs[i].mod_name) = Lower(identifier)}
    IN IF identifier \in Names(graph) THEN identifier
       ELSE IF Cardinality(same) = 1
       THEN graph.vs[CHOOSE i \in same : TRUE].name
       ELSE ""
\* the catalog ids one edge away from a node
DirectSuccessors(graph, node) ==
    {graph.vs[e[2]].name :
        e \in {x \in Range(graph.es) : graph.vs[x[1]].name = node}}
DirectPredecessors(graph, node) ==
    {graph.vs[e[1]].name :
        e \in {x \in Range(graph.es) : graph.vs[x[2]].name = node}}

\* C22: when the identifier of a query stands for a node, a node of that
\* catalog id being taken before any node of that display name,
\* get_dependencies returns exactly the catalog ids of the node's direct
\* successors and get_dependents those of its direct predecessors, and the
\* graph is unchanged.
C22_OneHopNeighbours ==
    [][\A identifier \in Identifiers :
        LET node == NodeOf(mod_graph.graph, identifier) IN
        ( /\ manager_call'.op \in Queries
          /\ manager_call'.arg = identifier
          /\ node # "" )
            => /\ manager_call'.raised = ""
               /\ manager_call'.op = "get_dependencies"
                    => Range(manager_call'.ret)
                        = DirectSuccessors(mod_graph.graph, node)
               /\ manager_call'.op = "get_dependents"
                    => Range(manager_call'.ret)
                        = DirectPredecessors(mod_graph.graph, node)
               /\ mod_graph' = mod_graph
      ]_vars

\* get_dependencies("1") was answered on a graph where "1" is the catalog id
\* of one node and the display name of another, and where a node two edges
\* away from node 1 is not one edge away from it
C22_Witness ==
    /\ manager_call.op = "get_dependencies"
    /\ manager_call.arg = "1"
    /\ manager_call.raised = ""
    /\ \E i \in DOMAIN mod_graph.graph.vs :
        /\ mod_graph.graph.vs[i].mod_name = "1"
        /\ mod_graph.graph.vs[i].name # "1"
    /\ manager_call.ret # <<>>
    /\ \E near \in DirectSuccessors(mod_graph.graph, "1") :
        \E far \in DirectSuccessors(mod_graph.graph, near) :
            far \notin DirectSuccessors(mod_graph.graph, "1")

\* ------------------------------------------------ save and load, persistence
NodeSet(graph) == Names(graph)
EdgeSet(graph) ==
    {<<graph.vs[e[1]].name, graph.vs[e[2]].name>> : e \in Range(graph.es)}
\* the graph was built by construction and merges and has just been saved
SavedAfterMerges ==
    /\ graph_ops # <<>>
    /\ LastOp(graph_ops).op = "save"
    /\ \A k \in 1..(Len(graph_ops) - 1) :
          graph_ops[k].op \in {"construct", "update_by_metadata"}
\* the step loads one of the two files, which the save before it wrote
LoadsOneFile(paths) ==
    /\ paths \in {<<TRUE, FALSE>>, <<FALSE, TRUE>>}
    /\ graph_ops' = Append(graph_ops, GraphOp("load", paths))
    /\ paths[1] => LastOp(graph_ops).arg[1]
    /\ paths[2] => LastOp(graph_ops).arg[2]

\* C23: a graph built by merges, saved, and loaded back from the topology
\* file alone or from the metadata document alone has the same node set and
\* the same edge set as before.
C23_SaveLoadRoundTrip ==
    [][\A paths \in PathChoices :
        (SavedAfterMerges /\ LoadsOneFile(paths))
            => /\ NodeSet(mod_graph'.graph) = NodeSet(mod_graph.graph)
               /\ EdgeSet(mod_graph'.graph) = EdgeSet(mod_graph.graph)
      ]_vars

\* C24: after add_to_config the topology file and the metadata document
\* exist and describe the graph as it is in memory after the merge.
C24_PersistedAfterMerge ==
    manager_call.op = "add_to_config" =>
        /\ disk.graphml.exists
        /\ NodeSet(Read_GraphMLz(disk.graphml.content))
                = NodeSet(mod_graph.graph)
        /\ EdgeSet(Read_GraphMLz(disk.graphml.content))
                = EdgeSet(mod_graph.graph)
        /\ disk.meta.exists
        /\ disk.meta.content = mod_graph.mod_data

\* ----------------------------------------------------------------- deletion
\* C25: delete_mod without force, on an identifier that stands for a node
\* with at least one dependent, raises an error, and the graph, the metadata
\* mapping, the files and the configuration are unchanged.
C25_DeleteConflictRejected ==
    [][\A identifier \in Identifiers :
        LET node == NodeOf(mod_graph.graph, identifier) IN
        ( /\ manager_call'.op = "delete_mod"
          /\ manager_call'.arg = identifier
          /\ ~manager_call'.force
          /\ node # ""
          /\ DirectPredecessors(mod_graph.graph, node) # {} )
            => /\ manager_call'.raised = "ValueError"
               /\ ~manager_call'.done
               /\ mod_graph' = mod_graph
               /\ disk' = disk
               /\ zomboid_config' = zomboid_config
      ]_vars

\* delete_mod without force was rejected for a node, given by its display
\* name, that has a dependent; the metadata document exists
C25_Witness ==
    /\ manager_call.op = "delete_mod"
    /\ ~manager_call.force
    /\ manager_call.raised = "ValueError"
    /\ manager_call.arg \notin Names(mod_graph.graph)
    /\ manager_call.node \in Names(mod_graph.graph)
    /\ DirectPredecessors(mod_graph.graph, manager_call.node) # {}
    /\ disk.meta.exists

\* C26: a delete_mod call that returns True has removed the node: its
\* catalog id is not in the graph and no edge starts or ends at it.
C26_DeleteRemovesNode ==
    (manager_call.op = "delete_mod" /\ manager_call.done) =>
        /\ manager_call.node \notin NodeSet(mod_graph.graph)
        /\ \A edge \in EdgeSet(mod_graph.graph) :
              edge[1] # manager_call.node /\ edge[2] # manager_call.node

\* ------------------------------------------------- the configuration lists
\* the first position of x in seq, 0 if it is not there
Pos(seq, x) ==
    IF InSeq(seq, x)
    THEN CHOOSE i \in DOMAIN seq :
            seq[i] = x /\ \A j \in 1..(i - 1) : seq[j] # x
    ELSE 0
\* the step is add_to_config(batch)
AddStep(batch) ==
    /\ manager_call'.op = "add_to_config"
    /\ manager_call'.arg = batch
    /\ add_calls' = add_calls + 1
WorkshopItems == zomboid_config.parser.WorkshopItems
Mods == zomboid_config.parser.Mods

\* C27: after add_to_config(batch) the entries of the batch that were not in
\* WorkshopItems are in both lists, in the order of the batch: when A comes
\* before B in the batch, A's catalog id is before B's in WorkshopItems and
\* A's internal ids are before B's in Mods.
C27_BatchOrderKept ==
    [][\A batch \in Installs : AddStep(batch) =>
        \A a, b \in DOMAIN batch.keys :
            ( /\ a < b
              /\ ~InSeq(WorkshopItems, batch.keys[a])
              /\ ~InSeq(WorkshopItems, batch.keys[b]) )
                => /\ Pos(WorkshopItems', batch.keys[a]) > 0
                   /\ Pos(WorkshopItems', batch.keys[a])
                        < Pos(WorkshopItems', batch.keys[b])
                   /\ \A x \in Range(batch.val[batch.keys[a]].mod_id),
                         y \in Range(batch.val[batch.keys[b]].mod_id) :
                        /\ Pos(Mods', x) > 0
                        /\ Pos(Mods', x) < Pos(Mods', y)
      ]_vars

\* C28: add_to_config of the batch that was applied just before leaves
\* WorkshopItems and Mods as they are, and after add_to_config no catalog id
\* is twice in WorkshopItems.
C28_SecondApplicationAddsNothing ==
    [][\A batch \in Installs : AddStep(batch) =>
        /\ ( /\ manager_call.op = "add_to_config"
             /\ manager_call.arg = batch )
              => /\ WorkshopItems' = WorkshopItems
                 /\ Mods' = Mods
        /\ \A i, j \in DOMAIN WorkshopItems' :
              WorkshopItems'[i] = WorkshopItems'[j] => i = j
      ]_vars

\* =====================================================================
\* The bot's commands: the rate limiter and the tmux session
\* =====================================================================
\* calls of the decorated handler, and of restart_session, in one behaviour
MaxCommands == 6
MaxRestarts == 2

\* @rate_limit(rate_limit_duration=100, max_calls=4) of the handler add_mod;
\* independent_call_limit is None, so no "independent_call" entry is ever made
rate_limit_duration == 100
max_calls == 4

\* update.effective_user.id; the limiter keeps one entry for each user
Users == {"u1"}
\* the handler returns, or an exception leaves it
Outcomes == {"returned", "raised"}

LogEntry(user, ran, notice, outcome) ==
    [user |-> user, at |-> clock, ran |-> ran, notice |-> notice,
     outcome |-> outcome]

\* lines 160-165: the entry of the user after the test of the elapsed time
AfterElapsedTest(data, user) ==
    IF user \in DOMAIN data
          /\ clock - data[user].timestamp > rate_limit_duration
    THEN [data EXCEPT ![user] = [count |-> 0, timestamp |-> clock]]
    ELSE data

\* lines 166-172: the call is answered with the notice and the handler is
\* not run
Limited(data, user) ==
    /\ user \in DOMAIN data
    /\ ~(clock - data[user].timestamp > rate_limit_duration)
    /\ data[user].count >= max_calls

\* lines 177-181: the count after the handler has returned
Counted(data, user) ==
    IF user \in DOMAIN data
    THEN [data EXCEPT ![user].count = @ + 1]
    ELSE [u \in DOMAIN data \cup {user} |->
            IF u = user THEN [count |-> 1, timestamp |-> clock] ELSE data[u]]

\* rate_limit.wrapper for one update of a user; an exception of the handler
\* leaves the wrapper at line 175
Command(user, outcome) ==
    /\ Len(handler_log) < MaxCommands
    /\ IF Limited(rate_limit_data, user)
       THEN /\ handler_log' =
                Append(handler_log, LogEntry(user, FALSE, TRUE, ""))
            /\ UNCHANGED rate_limit_data
       ELSE /\ handler_log' =
                Append(handler_log, LogEntry(user, TRUE, FALSE, outcome))
            /\ rate_limit_data' =
                IF outcome = "returned"
                THEN Counted(AfterElapsedTest(rate_limit_data, user), user)
                ELSE AfterElapsedTest(rate_limit_data, user)
    /\ UNCHANGED <<clock, tmux, rcon, vote_vars, resolver_vars, graph_vars,
                   manager_vars>>

\* the instants at which the answer of the wrapper changes: the last second
\* of a user's window and the first second after it
Instants ==
    UNION {{rate_limit_data[u].timestamp + rate_limit_duration,
            rate_limit_data[u].timestamp + rate_limit_duration + 1} :
           u \in DOMAIN rate_limit_data}

\* time passes until the next such instant
Wait(instant) ==
    /\ instant \in Instants
    /\ instant > clock
    /\ clock' = instant
    /\ UNCHANGED <<rate_limit_data, handler_log, tmux, rcon,
                   vote_vars,
                   resolver_vars, graph_vars, manager_vars>>

\* run_cmd: subprocess.run(..., check=True) raises CalledProcessError when
\* the command exits with a status other than 0
run_cmd(returncode) ==
    [returncode |-> returncode,
     raised |-> IF returncode # 0 THEN "CalledProcessError" ELSE ""]

\* tmux has-session -t name: status 0 if the session exists, 1 if not
has_session(server) == run_cmd(IF server.session THEN 0 ELSE 1)

\* the two send-keys commands
StartKeys == <<"cd", "start-server.sh">>

\* restart_session; depth bounds the recursion of line 36, which is entered
\* once at most because kill-session has removed the session
RECURSIVE restart_session(_, _)
restart_session(server, depth) ==
    LET check == has_session(server) IN
    IF check.raised # "" THEN [server EXCEPT !.last = check.raised]
    ELSE IF check.returncode = 0
    THEN IF depth = 0 THEN [server EXCEPT !.last = "RecursionError"]
         ELSE restart_session(
                [server EXCEPT !.session = FALSE, !.keys = <<>>], depth - 1)
    ELSE [server EXCEPT !.session = TRUE, !.keys = StartKeys,
                        !.last = "True"]

RestartSession ==
    /\ tmux.calls < MaxRestarts
    /\ tmux' = [restart_session(tmux, 2) EXCEPT !.calls = tmux.calls + 1]
    /\ UNCHANGED <<clock, rate_limit_data, handler_log, rcon, vote_vars,
                   resolver_vars, graph_vars, manager_vars>>

\* somebody opens the session by hand: tmux new-session -d -s name
OpenSession ==
    /\ ~tmux.session
    /\ tmux' = [tmux EXCEPT !.session = TRUE, !.keys = <<>>]
    /\ UNCHANGED <<clock, rate_limit_data, handler_log, rcon, vote_vars,
                   resolver_vars, graph_vars, manager_vars>>

InitCommands ==
    /\ VoteInit
    /\ MINIMUM_AGREE_MEMBERS_FOR_MOD = CHOOSE q \in QuorumChoices : TRUE
    /\ IdleInit

NextCommands ==
    \/ \E user \in Users, outcome \in Outcomes : Command(user, outcome)
    \/ \E instant \in Instants : Wait(instant)
    \/ RestartSession
    \/ OpenSession

SpecCommands == InitCommands /\ [][NextCommands]_vars

\* --------------------------------------------- properties of the commands
\* the calls of a user that ran the handler in the D seconds that start with
\* the i-th call
RanInWindow(user, i) ==
    {j \in DOMAIN handler_log :
        /\ handler_log[j].user = user
        /\ handler_log[j].ran
        /\ handler_log[j].at >= handler_log[i].at
        /\ handler_log[j].at < handler_log[i].at + rate_limit_duration}

\* C29: among the calls of one user within any window of
\* rate_limit_duration seconds at most max_calls run the handler, and a
\* call that does not run it is answered with the notice.
C29_AtMostMaxCallsPerWindow ==
    /\ \A user \in Users, i \in DOMAIN handler_log :
          Cardinality(RanInWindow(user, i)) <= max_calls
    /\ \A i \in DOMAIN handler_log :
          ~handler_log[i].ran => handler_log[i].notice

\* C30: every call of restart_session returns True and leaves a session that
\* was created by the call and received the start commands, whether a
\* session existed before the call or not.
C30_RestartReturnsTrue ==
    [][tmux'.calls = tmux.calls + 1 =>
        /\ tmux'.last = "True"
        /\ tmux'.session
        /\ tmux'.keys = StartKeys
      ]_vars

\* =====================================================================
\* The RCON command wrapper (ZomboidCommand)
\* =====================================================================
\* calls of the wrapper's methods in one behaviour
MaxRconCalls == 2

\* str.strip() on the texts of the model
Strip(text) ==
    CASE text = " " -> ""
      [] text = " admin " -> "admin"
      [] OTHER -> text

\* the texts given as arguments: empty, blank, plain, padded
Texts == {"", " ", "bob", " admin "}

\* RCONConfig.allowed_commands: None, or a list of base commands
NoList == [none |-> TRUE, items |-> {}]
AllowedChoices == {NoList, [none |-> FALSE, items |-> {"/servermsg"}]}

\* a command is the list of the words its text is made of; an empty word
\* stands for an argument that was empty
\* command.strip().split()[0]
base_cmd(command) == command[1]

_is_command_allowed(allowed_commands, command) ==
    IF allowed_commands.none THEN TRUE
    ELSE base_cmd(command) \in allowed_commands.items

\* run_command: the exception raised, "" if the command is sent
run_command(server, allowed_commands, command) ==
    IF ~server.client THEN "RuntimeError"
    ELSE IF ~_is_command_allowed(allowed_commands, command)
    THEN "PermissionError"
    ELSE ""

\* `if not player_name or access_level` / `if not option_name or value`
ArgumentsRefused(first, second) == first = "" \/ second # ""

\* setaccesslevel and change_option: both arguments are stripped, tested,
\* and the command is passed to run_command
TwoArgumentCall(server, allowed_commands, op, word, first, second) ==
    LET one == Strip(first)
        two == Strip(second)
        command == <<word, one, two>>
    IN IF ArgumentsRefused(one, two)
       THEN [server EXCEPT !.calls = @ + 1, !.op = op,
                           !.args = <<first, second>>,
                           !.command = <<>>, !.raised = "ValueError"]
       ELSE [server EXCEPT !.calls = @ + 1, !.op = op,
                           !.args = <<first, second>>,
                           !.command = command,
                           !.raised = run_command(server, allowed_commands,
                                                  command)]

setaccesslevel(server, allowed_commands, player_name, access_level) ==
    TwoArgumentCall(server, allowed_commands, "setaccesslevel",
                    "/setaccesslevel", player_name, access_level)

change_option(server, allowed_commands, option_name, value) ==
    TwoArgumentCall(server, allowed_commands, "change_option",
                    "/changeoption", option_name, value)

\* broadcast
broadcast(server, allowed_commands, message) ==
    LET text == Strip(message) IN
    IF text = ""
    THEN [server EXCEPT !.calls = @ + 1, !.op = "broadcast",
                        !.args = <<message>>, !.command = <<>>,
                        !.raised = "ValueError"]
    ELSE [server EXCEPT !.calls = @ + 1, !.op = "broadcast",
                        !.args = <<message>>,
                        !.command = <<"/servermsg", text>>,
                        !.raised = run_command(server, allowed_commands,
                                               <<"/servermsg", text>>)]

RconUnchanged ==
    UNCHANGED <<clock, rate_limit_data, handler_log, tmux, vote_vars,
                resolver_vars, graph_vars, manager_vars>>

\* __aenter__: the client is made and connected
Connect ==
    /\ rcon' = [rcon EXCEPT !.client = TRUE]
    /\ RconUnchanged

SetAccessLevel(allowed_commands, player_name, access_level) ==
    /\ rcon.calls < MaxRconCalls
    /\ rcon' = setaccesslevel(rcon, allowed_commands, player_name,
                              access_level)
    /\ RconUnchanged

ChangeOption(allowed_commands, option_name, value) ==
    /\ rcon.calls < MaxRconCalls
    /\ rcon' = change_option(rcon, allowed_commands, option_name, value)
    /\ RconUnchanged

Broadcast(allowed_commands, message) ==
    /\ rcon.calls < MaxRconCalls
    /\ rcon' = broadcast(rcon, allowed_commands, message)
    /\ RconUnchanged

InitRcon ==
    /\ VoteInit
    /\ MINIMUM_AGREE_MEMBERS_FOR_MOD = CHOOSE q \in QuorumChoices : TRUE
    /\ IdleInit

NextRcon ==
    \/ Connect
    \/ \E allowed \in AllowedChoices, first \in Texts, second \in Texts :
            SetAccessLevel(allowed, first, second)
    \/ \E allowed \in AllowedChoices, first \in Texts, second \in Texts :
            ChangeOption(allowed, first, second)
    \/ \E allowed \in AllowedChoices, message \in Texts :
            Broadcast(allowed, message)

SpecRcon == InitRcon /\ [][NextRcon]_vars

\* C31: setaccesslevel and change_option raise ValueError only when one of
\* the two arguments is empty after trimming; when both are non-empty the
\* command made of them is passed to run_command.
C31_ValueErrorOnlyForEmptyArgument ==
    rcon.op \in {"setaccesslevel", "change_option"} =>
        LET one == Strip(rcon.args[1])
            two == Strip(rcon.args[2])
        IN /\ rcon.raised = "ValueError" => (one = "" \/ two = "")
           /\ (one # "" /\ two # "")
                => rcon.command =
                    << IF rcon.op = "setaccesslevel" THEN "/setaccesslevel"
                       ELSE "/changeoption", one, two >>

\* =====================================================================
\* Further properties of the vote
\* =====================================================================
\* the step takes a close decision for poll p
ClosingStep(p) == Len(closures'[p]) = Len(closures[p]) + 1

\* C32: the handler that closes a poll Approved carries the installation
\* through: the configuration is written, the graph is merged and saved and
\* the completion message is sent, whatever get_required_mod gave.
C32_ApprovedCloseInstalls ==
    [][\A p \in PollIds :
        ( /\ ClosingStep(p)
          /\ closures'[p][Len(closures'[p])].outcome = "Approved" )
            => LET done == Added(effects[p], effects'[p]) IN
               /\ InSeq(done, Call("change_main_config", "WorkshopItems"))
               /\ InSeq(done, Call("change_main_config", "Mods"))
               /\ InSeq(done, Call("update_by_metadata", ""))
               /\ InSeq(done, Call("save", ""))
               /\ InSeq(done, Call("send_message", "added"))
      ]_vars

\* =====================================================================
\* The configuration file (ZomboidConfig)
\* =====================================================================
\* the values given to change_main_config
Values == {EmptyValue, <<"7">>, <<"7", "8">>}

ChangeMainConfig(key, value) ==
    /\ zomboid_config' = change_main_config(zomboid_config, key, value)
    /\ manager_call' = [NoCall EXCEPT !.op = "change_main_config",
                                      !.arg = <<key, value>>]
    /\ UNCHANGED <<add_calls, graph_vars, vote_vars, resolver_vars,
                   command_vars>>

InitConfig ==
    /\ VoteInit
    /\ MINIMUM_AGREE_MEMBERS_FOR_MOD = CHOOSE q \in QuorumChoices : TRUE
    /\ catalog = Diamond
    /\ mod_manager = NewManager
    /\ resolution = NoResolution
    /\ mod_graph = NewGraph
    /\ disk = EmptyDisk
    /\ graph_ops = <<>>
    /\ zomboid_config \in ConfigChoices
    /\ manager_call = NoCall
    /\ add_calls = 0
    /\ CommandInit

NextConfig ==
    \E key \in ConfigKeys, value \in Values : ChangeMainConfig(key, value)

SpecConfig == InitConfig /\ [][NextConfig]_vars

\* C33: after change_main_config(key, value) get_main_config_value(key)
\* returns value, the file holds value on the line of key, whatever the
\* value of key was before, and the line of every other key is as before.
C33_ChangeThenGet ==
    [][\A key \in ConfigKeys, value \in Values :
        ( /\ manager_call'.op = "change_main_config"
          /\ manager_call'.arg = <<key, value>> )
            => /\ get_main_config_value(zomboid_config', key) = value
               /\ zomboid_config'.file[key] = value
               /\ \A other \in ConfigKeys \ {key} :
                    zomboid_config'.file[other] = zomboid_config.file[other]
      ]_vars

EventOf(p) ==
    \/ \E again \in BOOLEAN, selected_options \in OptionChoices,
          resolved \in ResolveOutcomes :
            ReceivePollAnswer(p, again, selected_options, resolved)
    \/ \E job \in job_queue, resolved \in ResolveOutcomes :
            job.data = p /\ StopPollByTime(job, resolved)

JobsOf(queue, q) == {job \in queue : job.data = q}

\* C35: with two polls open, an event of one poll leaves the timers, the
\* tally, the vote count and the deadline of the other poll as they are.
C35_SessionsIndependent ==
    [][\A p \in PollIds : \A q \in PollIds \ {p} :
        EventOf(p) =>
            /\ JobsOf(job_queue', q) = JobsOf(job_queue, q)
            /\ polls'[q] = polls[q]
            /\ bot_data'[q].answers = bot_data[q].answers
            /\ bot_data'[q].poll_end_time = bot_data[q].poll_end_time
      ]_vars

\* =====================================================================
\* Further properties of the resolver
\* =====================================================================
\* the URLs whose fetch timed out during the call
TimedOutUrls ==
    {resolution.fetched[i].url : i \in
        {j \in DOMAIN resolution.fetched :
            resolution.fetched[j].outcome = "timeout"}}

\* C36: a call of get_required_mod starts with no URL pending, retries only
\* URLs that timed out during the call itself, and returns only items that
\* the root reaches.
C36_CallsAreIndependent ==
    Resolved =>
        /\ resolution.pending_at_start = <<>>
        /\ \A i \in DOMAIN resolution.retried :
             resolution.retried[i].url \in TimedOutUrls
        /\ Keys(resolution.ret) \subseteq Reachable(resolution.root)

\* C37: when a call returns, every item whose page was fetched and parsed in
\* the initial pass is a key of the returned mapping.
C37_RetryOnlyAdds ==
    (Resolved /\ resolution.raised = "") =>
        \A id \in CatalogIds :
            (FetchedIn(id, 0) /\ ~ParseRaises(catalog[id]))
                => id \in Keys(resolution.ret)

\* =====================================================================
\* Further properties of the graph
\* =====================================================================
\* the graph object has only been merged into since it was created
OnlyMerges ==
    \A k \in DOMAIN graph_ops : graph_ops[k].op = "update_by_metadata"

\* the names of the targets of the edges that leave the vertex named id
TargetsOf(graph, id) ==
    {pair[2] : pair \in {edge \in EdgeSet(graph) : edge[1] = id}}

\* C38: after merges only, for every id of the metadata mapping the targets
\* of the edges that leave its node are the ids of its stored required
\* list, and the graph built from the metadata mapping has the nodes and the
\* edges of the graph in memory.
C38_GraphAgreesWithMetadata ==
    OnlyMerges =>
        /\ \A id \in DOMAIN mod_graph.mod_data.val :
             TargetsOf(mod_graph.graph, id)
                = Range(mod_graph.mod_data.val[id].required)
        /\ LET rebuilt == NewGraphFrom(mod_graph.mod_data).graph IN
           /\ NodeSet(rebuilt) = NodeSet(mod_graph.graph)
           /\ EdgeSet(rebuilt) = EdgeSet(mod_graph.graph)

\* the fetches of the initial pass of the call
InitialPassFetches == {i \in DOMAIN resolution.fetched :
                          resolution.fetched[i].round = 0}

\* C39: a call of get_required_mod, on a catalog with a cycle as on any
\* other, ends without exceeding the recursion limit, and its initial pass
\* makes at most as many fetches as the catalog has items.
C39_TerminatesOnCycle ==
    Resolved =>
        /\ resolution.raised # "RecursionError"
        /\ Cardinality(InitialPassFetches) <= Cardinality(CatalogIds)

====
